---- MODULE Spec2Model ----
(***************************************************************************)
(* SmartDemand per-item forecasting pipeline.                              *)
(*                                                                         *)
(* Seven specifications share this module:                                 *)
(*   SpecWeights  VolatilityAwareEnsemble.calculate_dynamic_weights as a   *)
(*                pure function of (volatility_score, model_performances). *)
(*   Spec         run_parallel_processing: the sequential loop over the    *)
(*                per-item pipeline process_product.                       *)
(*   SpecLeak     the factor synthesizer run on one item inside two        *)
(*                different batches (two-copy composition).                *)
(*   SpecAdjust   the volatility adjustment of one base-weight mapping at  *)
(*                two volatility scores (two-copy composition).            *)
(*   SpecAnomaly  SmartDemandPreprocessor.process on one item's frame.     *)
(*   SpecTrain    one trainer on one history: the rows it holds out, fits  *)
(*                on and stops early on, and the values it hands on.       *)
(*   SpecFuture   predict_xgboost_future, one loop iteration per step.     *)
(*                                                                         *)
(* Real numbers (Python floats) are modelled as exact rationals <<n, d>>   *)
(* in lowest terms with d > 0; accuracies are drawn from small integer     *)
(* sets, volatility from tenths.                                           *)
(***************************************************************************)
EXTENDS Integers, Sequences, FiniteSets, TLC

VARIABLES
    \* --- SpecWeights: one call of calculate_dynamic_weights -------------
    w_pc,          \* "idle" before the call, "done" after it
    w_vol,         \* volatility_score argument (rational)
    w_perf,        \* model_performances argument: model name -> accuracy
    w_ret,         \* the returned weight dict
    w_self,        \* self.weights of the VolatilityAwareEnsemble object
    \* --- Spec: run_parallel_processing ----------------------------------
    pc,            \* "start", "loop", "done", "raised"
    cols,          \* required columns present in _df
    batch,         \* the items of _df: name -> history profile
    tasks,         \* the groupby task list (sequence of names)
    models_data,   \* the result mapping being built
    task_idx,      \* position of the loop in tasks (1-based)
    all_anomaly_logs, \* list of collected per-item anomaly logs
    last,          \* locals of the most recent process_product call
    \* --- SpecLeak: one item inside two batches --------------------------
    l_pc,          \* "idle", "done"
    l_frameA,      \* batch A: sequence of rows <<item, day>>
    l_frameB,      \* batch B: same rows of the item, other items differ
    l_colsA,       \* derived cyclic columns of the item computed in A
    l_colsB,       \* derived cyclic columns of the item computed in B
    \* --- SpecAdjust: one mapping adjusted at two volatility scores ------
    adj_pc,        \* "idle", "done"
    adj_perf,      \* model_performances: model name -> accuracy
    adj_lo,        \* the lower volatility score
    adj_hi,        \* the higher volatility score
    adj_at_lo,     \* adjusted_weights computed at adj_lo
    adj_at_hi,     \* adjusted_weights computed at adj_hi
    \* --- SpecAnomaly: SmartDemandPreprocessor.process --------------------
    an_pc,         \* "idle", "done"
    an_df,         \* the item's frame: sequence of rows
    an_log,        \* self.anomaly_log: sequence of log rows
    an_out,        \* processed_df: sequence of augmented rows
    an_vol,        \* volatility_info of the frame, None before the analysis
    \* --- SpecTrain: one trainer on one history --------------------------
    t_pc,          \* "idle", "done"
    t_kind,        \* which trainer
    t_n,           \* rows of the item's history (days 1..t_n)
    t_raw,         \* what the fitted model's predict returns (holdout)
    t_raw_future,  \* what the fitted model's predict returns (future)
    t_range,       \* <<min, max>> of the quantities (the MinMaxScaler's fit)
    t_res,         \* the trainer's result
    \* --- SpecFuture: predict_xgboost_future -----------------------------
    f_pc,          \* "start", "loop", "returned", "caught"
    f_model,       \* xgb_model: None or the fitted model
    f_df,          \* df: the item's processed frame, sequence of rows
    f_extras,      \* further numeric columns of df (date features)
    f_expected,    \* expected_features
    f_hist,        \* historical_df: sequence of rows
    f_temp_last,   \* the synthetic row of the latest step inside temp_df
    f_engineered,  \* last_features of the latest step as engineered
    f_fed,         \* the feature vector of the latest xgb_model.predict
    f_preds,       \* future_predictions
    f_i,           \* the loop variable i (0-based)
    f_ret          \* the returned frame

wvars == <<w_pc, w_vol, w_perf, w_ret, w_self>>
pvars == <<pc, cols, batch, tasks, task_idx, models_data, all_anomaly_logs,
          last>>
lvars == <<l_pc, l_frameA, l_frameB, l_colsA, l_colsB>>
avars == <<adj_pc, adj_perf, adj_lo, adj_hi, adj_at_lo, adj_at_hi>>
nvars == <<an_pc, an_df, an_log, an_out, an_vol>>
tvars == <<t_pc, t_kind, t_n, t_raw, t_raw_future, t_range, t_res>>
fvars == <<f_pc, f_model, f_df, f_extras, f_expected, f_hist, f_temp_last,
          f_engineered, f_fed, f_preds, f_i, f_ret>>
vars == <<wvars, pvars, lvars, avars, nvars, tvars, fvars>>

(***************************************************************************)
(* Python values                                                           *)
(***************************************************************************)
\* An empty dict / empty array / empty list.
EmptyDict == << >>

\* None, and a value that is not None.
None == << >>
Some(x) == <<x>>

\* dict.get(key, default)
Get(d, k, default) == IF k \in DOMAIN d THEN d[k] ELSE default

(***************************************************************************)
(* Exact rational arithmetic standing for float arithmetic                 *)
(***************************************************************************)
Abs(x) == IF x < 0 THEN -x ELSE x

RECURSIVE GCD(_, _)
GCD(a, b) == IF b = 0 THEN a ELSE GCD(b, a % b)

\* n/d in lowest terms with a positive denominator (d # 0).
Rat(n, d) ==
    LET g == GCD(Abs(n), Abs(d))
        s == IF d < 0 THEN -1 ELSE 1
    IN  <<(s * n) \div g, (s * d) \div g>>

RatInt(n) == <<n, 1>>
RatAdd(a, b) == Rat(a[1] * b[2] + b[1] * a[2], a[2] * b[2])
RatMul(a, b) == Rat(a[1] * b[1], a[2] * b[2])
RatDiv(a, b) == Rat(a[1] * b[2], a[2] * b[1])
RatLeq(a, b) == a[1] * b[2] <= b[1] * a[2]

\* sum(d.values()) for a dict of rationals
RECURSIVE RatSumOver(_, _)
RatSumOver(d, S) ==
    IF S = {} THEN RatInt(0)
    ELSE LET m == CHOOSE x \in S : TRUE
         IN  RatAdd(d[m], RatSumOver(d, S \ {m}))

RatSum(d) == RatSumOver(d, DOMAIN d)

(***************************************************************************)
(* VolatilityAwareEnsemble (advanced_models.py)                            *)
(***************************************************************************)
\* The four model names the volatility_adjustment table is keyed by.
ModelKinds == {"prophet", "xgboost", "lightgbm", "lstm"}

\* A table whose multipliers are ten times steeper in the volatility.
SteepVolatilityAdjustment(v) ==
    [m \in ModelKinds |->
        CASE m = "prophet"  -> RatAdd(RatInt(1), RatMul(v, RatInt(-3)))
          [] m = "xgboost"  -> RatAdd(RatInt(1), RatMul(v, RatInt(-2)))
          [] m = "lightgbm" -> RatAdd(RatInt(1), RatMul(v, RatInt(2)))
          [] m = "lstm"     -> RatAdd(RatInt(1), RatMul(v, RatInt(3)))]

\* A table that ignores the volatility: every multiplier is 1.
FlatVolatilityAdjustment(v) == [m \in ModelKinds |-> RatInt(1)]

\* volatility_adjustment: multiplier per model identity.
VolatilityAdjustment(v) ==
    [m \in ModelKinds |->
        CASE m = "prophet"  -> RatAdd(RatInt(1), RatMul(v, Rat(-3, 10)))
          [] m = "xgboost"  -> RatAdd(RatInt(1), RatMul(v, Rat(-2, 10)))
          [] m = "lightgbm" -> RatAdd(RatInt(1), RatMul(v, Rat(2, 10)))
          [] m = "lstm"     -> RatAdd(RatInt(1), RatMul(v, Rat(3, 10)))]

\* A fallback that gives every model the whole weight.
UnitWeights(d) == [m \in DOMAIN d |-> RatInt(1)]

\* {model: 1.0 / num_models for model in d}
EqualWeights(d) == [m \in DOMAIN d |-> Rat(1, Cardinality(DOMAIN d))]

\* base_weights: perf / total_performance
BaseWeights(perf) ==
    LET total_performance == RatSum(perf)
    IN  [m \in DOMAIN perf |-> RatDiv(perf[m], total_performance)]

\* The loop without its else branch: a model without a multiplier gets no
\* adjusted weight.
AdjustedWeightsKnownOnly(base_weights, v) ==
    LET volatility_adjustment == VolatilityAdjustment(v)
    IN  [m \in DOMAIN base_weights \cap DOMAIN volatility_adjustment |->
            RatMul(base_weights[m], volatility_adjustment[m])]

\* adjusted_weights: base weight times the multiplier, when one is defined
AdjustedWeights(base_weights, v) ==
    LET volatility_adjustment == VolatilityAdjustment(v)
    IN  [m \in DOMAIN base_weights |->
            IF m \in DOMAIN volatility_adjustment
            THEN RatMul(base_weights[m], volatility_adjustment[m])
            ELSE base_weights[m]]

\* normalized_weights: weight / total_weight
NormalizedWeights(adjusted_weights) ==
    LET total_weight == RatSum(adjusted_weights)
    IN  [m \in DOMAIN adjusted_weights |->
            RatDiv(adjusted_weights[m], total_weight)]

\* calculate_dynamic_weights(volatility_score, model_performances) on an
\* object whose self.weights is self_weights.  ret is the returned dict,
\* self the object's self.weights afterwards: only the last return path
\* assigns self.weights.
calculate_dynamic_weights(self_weights, v, perf) ==
    IF DOMAIN perf = {}
    THEN [ret |-> EmptyDict, self |-> self_weights]
    ELSE IF RatSum(perf) = RatInt(0)
    THEN [ret |-> EqualWeights(perf), self |-> self_weights]
    ELSE LET adjusted_weights == AdjustedWeights(BaseWeights(perf), v)
         IN  IF RatSum(adjusted_weights) = RatInt(0)
             THEN [ret |-> EqualWeights(adjusted_weights), self |-> self_weights]
             ELSE LET normalized_weights == NormalizedWeights(adjusted_weights)
                  IN  [ret |-> normalized_weights, self |-> normalized_weights]

(***************************************************************************)
(* SpecWeights: calculate_dynamic_weights on enumerated arguments          *)
(***************************************************************************)
\* Largest number of models in an enumerated performance mapping.
MaxModels == 4

\* Model names of the enumerated mappings: the four kinds and two names
\* without a multiplier.
WNames == ModelKinds \cup {"A", "B"}

\* Enumerated accuracies (100 - MAPE may be negative, zero or positive).
WAccValues == {-7, 0, 13, 20, 80}

\* Enumerated volatility scores: 0, 1/2, 1 and 3/2.
WVolValues == {Rat(0, 10), Rat(5, 10), Rat(10, 10), Rat(15, 10)}

WPerfMappings ==
    UNION {[D -> {RatInt(a) : a \in WAccValues}] :
              D \in {S \in SUBSET WNames : Cardinality(S) <= MaxModels}}

WInit ==
    /\ w_pc = "idle"
    /\ w_vol \in WVolValues
    /\ w_perf \in WPerfMappings
    /\ w_ret = EmptyDict
    /\ w_self = EmptyDict

\* ensemble = VolatilityAwareEnsemble(); ensemble.calculate_dynamic_weights(...)
WCall ==
    /\ w_pc = "idle"
    /\ LET r == calculate_dynamic_weights(w_self, w_vol, w_perf)
       IN  /\ w_ret' = r.ret
           /\ w_self' = r.self
    /\ w_pc' = "done"
    /\ UNCHANGED <<w_vol, w_perf>>
    /\ UNCHANGED <<pvars, lvars, avars, nvars, tvars, fvars>>

(***************************************************************************)
(* The volatility adjustment of one mapping at two volatility scores       *)
(***************************************************************************)
\* Largest number of models in the mapping adjusted twice.
MaxAdjModels == 2

RatLess(a, b) == ~RatLeq(b, a)

\* Mappings whose accuracies do not sum to 0 (base weights exist).
AdjPerfMappings ==
    {perf \in UNION {[D -> {RatInt(a) : a \in WAccValues}] :
                        D \in {S \in SUBSET WNames :
                                  Cardinality(S) \in 1..MaxAdjModels}} :
        RatSum(perf) # RatInt(0)}

AInit ==
    /\ adj_pc = "idle"
    /\ adj_perf \in AdjPerfMappings
    /\ adj_lo \in WVolValues
    /\ adj_hi \in WVolValues
    /\ adj_at_lo = EmptyDict
    /\ adj_at_hi = EmptyDict

\* adjusted_weights of the same base weights at the two scores
AdjustTwice ==
    /\ adj_pc = "idle"
    /\ adj_at_lo' = AdjustedWeights(BaseWeights(adj_perf), adj_lo)
    /\ adj_at_hi' = AdjustedWeights(BaseWeights(adj_perf), adj_hi)
    /\ adj_pc' = "done"
    /\ UNCHANGED <<adj_perf, adj_lo, adj_hi>>
    /\ UNCHANGED <<wvars, pvars, lvars, nvars, tvars, fvars>>

(***************************************************************************)
(* Arrays of per-day values                                                *)
(*                                                                         *)
(* An item history of n rows has the calendar days 1..n.  A prediction     *)
(* array or a forecast frame is modelled by the calendar day each of its   *)
(* elements is for; the predicted quantities are not modelled.  The array  *)
(* is the row-major flattening of windows of width consecutive days, the   *)
(* w-th window (0-based) starting on day first + w, with the leading skip  *)
(* elements sliced off and len elements kept.  width = 1 is a plain daily  *)
(* series.                                                                 *)
(***************************************************************************)
Min(a, b) == IF a < b THEN a ELSE b
Max(a, b) == IF a < b THEN b ELSE a

\* The days a..b, one element per day (empty when b < a).
Days(a, b) == [first |-> a, width |-> 1, skip |-> 0, len |-> Max(0, b - a + 1)]

\* np.array([]) and pd.DataFrame()
EmptySeries == [first |-> 0, width |-> 1, skip |-> 0, len |-> 0]

\* The calendar day of element k (1-based).
DayAt(s, k) ==
    LET p == s.skip + k - 1
    IN  s.first + (p \div s.width) + (p % s.width)

\* The array as the sequence of its elements' days.
SeriesDays(s) == [k \in 1..s.len |-> DayAt(s, k)]

\* frame.tail(k): the last k rows
LastK(s, k) ==
    IF k >= s.len THEN s
    ELSE [s EXCEPT !.skip = s.skip + s.len - k, !.len = k]

\* seq[-k:] and series.iloc[-k:]: the last k elements, all of them for k = 0
NegSlice(s, k) == IF k = 0 THEN s ELSE LastK(s, k)

\* y_pred.reshape(-1, 1).flatten() for the windows starting at the 0-based
\* indices starts: window i holds data[i:i+width], the days i+1..i+width.
Flatten(starts, width) ==
    IF starts.len = 0 THEN EmptySeries
    ELSE [first |-> DayAt(starts, 1) + 1, width |-> width, skip |-> 0,
          len |-> starts.len * width]

(***************************************************************************)
(* Model trainers (model_trainer.py, advanced_models.py)                   *)
(*                                                                         *)
(* What a fit produces is an input of the model: a training outcome        *)
(* [acc, mae], or a failure (the fit raising).                             *)
(***************************************************************************)
MIN_DATA_DAYS == 30
XGB_EXTRA_DAYS == 30
XGB_TEST_DAYS == 30
HOLDOUT_CAP == 30
LGBM_MIN_ROWS == 60
LOOKBACK_DAYS == 14
FORECAST_DAYS == 7
LSTM_BUFFER == 30
PROPHET_FUTURE_PERIODS == 7
DAYS_TO_PREDICT == 7

\* min(30, int(len * 0.2))
HoldoutSize(len) == Min(HOLDOUT_CAP, (len * 2) \div 10)

\* A performance dict {'Accuracy(%)': a, 'MAE': m}.
Perf(a, m) == ("Accuracy(%)" :> a) @@ ("MAE" :> m)

\* The dict both try/except trainers return for "not trained".
NotTrainedPerf == Perf(-1, -1)

\* The minimum-history gate of each trainer: the history is too short.
TooShort(kind, n) ==
    CASE kind = "prophet"  -> n < MIN_DATA_DAYS
      [] kind = "xgboost"  -> n < MIN_DATA_DAYS + XGB_EXTRA_DAYS
      [] kind = "lstm"     -> n < LOOKBACK_DAYS + FORECAST_DAYS + LSTM_BUFFER
      [] kind = "lightgbm" -> n < LGBM_MIN_ROWS

\* train_prophet_model(df, product_name) -> (model, forecast, y_pred_test,
\* performance).  The model is fit on train_data, so the dates of
\* final_forecast are those of the training partition and 7 more after the
\* training partition's last date.
train_prophet_model(n, fails, outcome) ==
    LET test_days == HoldoutSize(n)
        train_end == n - test_days
    IN  IF TooShort("prophet", n) \/ fails
        THEN [model |-> None, forecast |-> None, test_pred |-> None,
              perf |-> NotTrainedPerf]
        ELSE [model |-> Some("Prophet"),
              forecast |-> Some(Days(1, train_end + PROPHET_FUTURE_PERIODS)),
              test_pred |-> Some(LastK(Days(1, train_end + test_days),
                                       test_days)),
              perf |-> Perf(outcome.acc, outcome.mae)]

\* train_xgboost_model(features, target) -> (model, y_pred_test, performance)
train_xgboost_model(n, fails, outcome) ==
    IF TooShort("xgboost", n) \/ fails
    THEN [model |-> None, test_pred |-> None, perf |-> NotTrainedPerf]
    ELSE [model |-> Some("XGBRegressor"),
          test_pred |-> Some(NegSlice(Days(1, n), XGB_TEST_DAYS)),
          perf |-> Perf(outcome.acc, outcome.mae)]

\* LSTMPredictor.prepare_sequences: the 0-based start indices i of the
\* target windows data[i:i+forecast_days], i in range(lookback_days,
\* len(data) - forecast_days + 1).
prepare_sequences(n) == Days(LOOKBACK_DAYS, n - FORECAST_DAYS)

\* LSTMPredictor.train(df, product_name).  No try/except: a failing fit
\* raises out of train.  The not-trained dict has no 'performance'.
LSTMPredictor_train(n, fails, outcome) ==
    IF TooShort("lstm", n)
    THEN [raised |-> FALSE,
          result |-> [trained |-> FALSE, message |-> "insufficient data"]]
    ELSE IF fails
    THEN [raised |-> TRUE, result |-> None]
    ELSE LET X == prepare_sequences(n)
             test_size == HoldoutSize(X.len)
         IN  [raised |-> FALSE,
              result |-> [trained |-> TRUE,
                          performance |-> Perf(outcome.acc, outcome.mae),
                          predictions |->
                              Flatten(NegSlice(X, test_size), FORECAST_DAYS)]]

\* LightGBMPredictor.train(features, target).  No try/except either.
LightGBMPredictor_train(n, fails, outcome) ==
    IF TooShort("lightgbm", n)
    THEN [raised |-> FALSE,
          result |-> [trained |-> FALSE, message |-> "insufficient data"]]
    ELSE IF fails
    THEN [raised |-> TRUE, result |-> None]
    ELSE LET test_size == HoldoutSize(n)
         IN  [raised |-> FALSE,
              result |-> [trained |-> TRUE,
                          performance |-> Perf(outcome.acc, outcome.mae),
                          predictions |-> NegSlice(Days(1, n), test_size)]]

\* predict_xgboost_future(df, product_name, xgb_model, 7): the dates of the
\* returned frame, last_date + 1 .. last_date + 7; an empty frame when
\* there is no model or a step raises.
predict_xgboost_future(n, xgb_model, fails) ==
    IF xgb_model = None \/ fails
    THEN EmptySeries
    ELSE Days(n + 1, n + DAYS_TO_PREDICT)

(***************************************************************************)
(* process_product (parallel_processor.py)                                 *)
(***************************************************************************)
\* The required columns '날짜', '품목명', '판매량'.
Required == {"date", "item", "quantity"}

\* The places of the per-item pipeline where an exception can be raised.
Stages == {"factor", "anomaly", "feature", "prophet", "xgboost", "lstm",
           "lightgbm", "ensemble", "future", "blend"}

\* The anomaly log of an item with k flagged rows: rows <<item, k-th flag>>.
AnomalyLog(name, k) == [j \in 1..k |-> <<name, j>>]

\* The elements of a set of days in ascending order.
RECURSIVE SortedSeq(_)
SortedSeq(S) ==
    IF S = {} THEN << >>
    ELSE LET lo == CHOOSE x \in S : \A y \in S : x <= y
         IN  <<lo>> \o SortedSeq(S \ {lo})

DaySet(s) == {DayAt(s, k) : k \in 1..s.len}

\* prophet_future_pred.join(xgb_future_pred, how='outer').fillna(0): one row
\* per date of either frame, in date order; a frame without the date
\* contributes the fill value 0.
OuterJoin(prophet_frame, xgb_frame) ==
    LET dates == SortedSeq(DaySet(prophet_frame) \cup DaySet(xgb_frame))
    IN  [k \in DOMAIN dates |->
            [date |-> dates[k],
             from_prophet |-> dates[k] \in DaySet(prophet_frame),
             from_xgb |-> dates[k] \in DaySet(xgb_frame)]]

RECURSIVE MinOver(_)
MinOver(S) ==
    LET x == CHOOSE y \in S : TRUE
    IN  IF S = {x} THEN x ELSE Min(x, MinOver(S \ {x}))

\* The order in which the try block reaches its raising statements; "none"
\* is the return statement.
StageRank(stage) ==
    CASE stage = "factor"   -> 1
      [] stage = "anomaly"  -> 2
      [] stage = "feature"  -> 3
      [] stage = "lstm"     -> 4
      [] stage = "lightgbm" -> 5
      [] stage = "no_model" -> 6
      [] stage = "ensemble" -> 7
      [] stage = "blend"    -> 8
      [] stage = "none"     -> 9

\* all_performances: each model's accuracy, 0 where the trainer's result
\* has no 'performance' (an untrained LSTM or LightGBM).
AllPerformances(prophet, xgb, lstm_result, lgbm_result) ==
    [m \in ModelKinds |->
        CASE m = "prophet"  -> Get(prophet.perf, "Accuracy(%)", 0)
          [] m = "xgboost"  -> Get(xgb.perf, "Accuracy(%)", 0)
          [] m = "lstm"     ->
                Get(Get(lstm_result, "performance", EmptyDict),
                    "Accuracy(%)", 0)
          [] m = "lightgbm" ->
                Get(Get(lgbm_result, "performance", EmptyDict),
                    "Accuracy(%)", 0)]

\* all_test_preds: each model's holdout predictions, np.array([]) where
\* there are none.
AllTestPreds(prophet, xgb, lstm_result, lgbm_result) ==
    [m \in ModelKinds |->
        CASE m = "prophet"  ->
                IF prophet.test_pred # None THEN prophet.test_pred[1]
                ELSE EmptySeries
          [] m = "xgboost"  ->
                IF xgb.test_pred # None THEN xgb.test_pred[1]
                ELSE EmptySeries
          [] m = "lstm"     -> Get(lstm_result, "predictions", EmptySeries)
          [] m = "lightgbm" -> Get(lgbm_result, "predictions", EmptySeries)]

\* The ensemble inputs with all_predictions left at full length:
\* all_predictions = dict(valid_preds)
EnsembleInputsUntruncated(n, all_performances, all_test_preds) ==
    LET valid == {m \in ModelKinds : all_test_preds[m].len > 0}
        min_len == IF valid = {} THEN 0
                   ELSE MinOver({all_test_preds[m].len : m \in valid})
    IN  [valid |-> valid,
         min_len |-> min_len,
         all_test_preds |-> all_test_preds,
         all_predictions |-> [m \in valid |-> all_test_preds[m]],
         performance_for_ensemble |->
            [m \in valid |-> RatInt(all_performances[m])],
         y_true_test |-> NegSlice(Days(1, n), min_len)]

\* valid_preds, min_len, all_predictions, performance_for_ensemble and
\* y_true_test.  With no valid prediction the code raises before min_len.
EnsembleInputs(n, all_performances, all_test_preds) ==
    LET valid == {m \in ModelKinds : all_test_preds[m].len > 0}
        min_len == IF valid = {} THEN 0
                   ELSE MinOver({all_test_preds[m].len : m \in valid})
    IN  [valid |-> valid,
         min_len |-> min_len,
         all_test_preds |-> all_test_preds,
         all_predictions |->
            [m \in valid |-> NegSlice(all_test_preds[m], min_len)],
         performance_for_ensemble |->
            [m \in valid |-> RatInt(all_performances[m])],
         y_true_test |-> NegSlice(Days(1, n), min_len)]

\* The future forecasts and their blend: xgb_future_pred_df, the last 7
\* rows of Prophet's forecast, and ensemble_forecast (None unless both
\* exist).
FutureBlend(n, prophet, xgb, fault) ==
    LET xgb_future_pred_df ==
            predict_xgboost_future(n, xgb.model, fault = "future")
        prophet_future_pred ==
            IF prophet.forecast # None
            THEN Some(LastK(prophet.forecast[1], PROPHET_FUTURE_PERIODS))
            ELSE None
        blending == prophet_future_pred # None /\ xgb_future_pred_df.len # 0
    IN  [blending |-> blending,
         ensemble_forecast |->
            IF blending
            THEN Some(OuterJoin(prophet_future_pred[1], xgb_future_pred_df))
            ELSE None]

\* prophet_weight, xgb_weight = ensemble.weights.get(., 0.5), each divided
\* by total_w.  The weights are numpy floats, whose division by zero gives
\* nan or inf without raising: normalized is then None.
BlendWeights(weights) ==
    LET prophet_weight == Get(weights, "prophet", Rat(1, 2))
        xgb_weight == Get(weights, "xgboost", Rat(1, 2))
        total_w == RatAdd(prophet_weight, xgb_weight)
    IN  [total_w |-> total_w,
         normalized |->
            IF total_w[1] = 0 THEN None
            ELSE Some([prophet |-> RatDiv(prophet_weight, total_w),
                       xgboost |-> RatDiv(xgb_weight, total_w)])]

\* The first statement of the try block whose exception reaches the except
\* clause; "none" when the block returns.
Raised(columns, fault, lstm_raised, lgbm_raised, valid, blending) ==
    \* 1. factor synthesis reads df['판매량']
    IF "quantity" \notin columns \/ fault = "factor" THEN "factor"
    \* 2. SmartDemandPreprocessor.process checks the required columns
    ELSE IF ~(Required \subseteq columns) \/ fault = "anomaly" THEN "anomaly"
    ELSE IF fault = "feature" THEN "feature"
    ELSE IF lstm_raised THEN "lstm"
    ELSE IF lgbm_raised THEN "lightgbm"
    ELSE IF valid = {} THEN "no_model"
    ELSE IF fault = "ensemble" THEN "ensemble"
    ELSE IF blending /\ fault = "blend" THEN "blend"
    ELSE "none"

\* The locals of the try block when it returns or raises, and the dict it
\* returns.  Of ensemble_perf only 'weights' (ensemble.weights) is kept; its
\* error metrics are not modelled.
TryResult(name, item, raised, prophet, xgb, lstm_r, lgbm_r, inp, ens, blend) ==
    LET rank == StageRank(raised)
        anomaly_log == AnomalyLog(name, item.anoms)
    IN  [raised |-> raised,
         anomaly_log |->
            IF rank > StageRank("anomaly") THEN Some(anomaly_log) ELSE None,
         prophet_perf |->
            IF rank > StageRank("feature") THEN Some(prophet.perf) ELSE None,
         xgb_perf |->
            IF rank > StageRank("feature") THEN Some(xgb.perf) ELSE None,
         lstm_result |->
            IF rank > StageRank("lstm") THEN Some(lstm_r) ELSE None,
         lgbm_result |->
            IF rank > StageRank("lightgbm") THEN Some(lgbm_r) ELSE None,
         all_test_preds |->
            IF rank > StageRank("lightgbm") THEN Some(inp.all_test_preds)
            ELSE None,
         all_predictions |->
            IF rank > StageRank("no_model") THEN Some(inp.all_predictions)
            ELSE None,
         volatility |->
            IF rank > StageRank("no_model") THEN Some(item.cv) ELSE None,
         performance_for_ensemble |->
            IF rank > StageRank("no_model")
            THEN Some(inp.performance_for_ensemble) ELSE None,
         y_true_test |->
            IF rank > StageRank("no_model") THEN Some(inp.y_true_test)
            ELSE None,
         weights |->
            IF rank > StageRank("ensemble") THEN Some(ens.ret) ELSE None,
         blend_weights |->
            IF blend.blending /\ rank >= StageRank("blend")
            THEN Some(BlendWeights(ens.self)) ELSE None,
         data |->
            IF raised = "none"
            THEN [prophet_performance |-> prophet.perf,
                  xgboost_performance |-> xgb.perf,
                  lstm_performance |->
                      Get(lstm_r, "performance", EmptyDict),
                  lightgbm_performance |->
                      Get(lgbm_r, "performance", EmptyDict),
                  ensemble_performance |-> [weights |-> ens.self],
                  ensemble_forecast |-> blend.ensemble_forecast,
                  anomaly_log |-> anomaly_log]
            ELSE EmptyDict]

\* Steps 5 and 6 of the try block, from the four trainers' results.
EnsembleAndBlend(name, item, columns, fault, prophet, xgb, lstm_call, lgbm_call, inp, blend) ==
    TryResult(name, item,
              Raised(columns, fault, lstm_call.raised, lgbm_call.raised,
                     inp.valid, blend.blending),
              prophet, xgb, lstm_call.result, lgbm_call.result, inp,
              calculate_dynamic_weights(EmptyDict, item.cv,
                                        inp.performance_for_ensemble),
              blend)

\* Steps 3 to 6 of the try block, from the four trainers' results.
AfterTraining(name, item, columns, fault, prophet, xgb, lstm_call, lgbm_call) ==
    EnsembleAndBlend(name, item, columns, fault, prophet, xgb, lstm_call,
        lgbm_call,
        EnsembleInputs(item.n,
            AllPerformances(prophet, xgb, lstm_call.result, lgbm_call.result),
            AllTestPreds(prophet, xgb, lstm_call.result, lgbm_call.result)),
        FutureBlend(item.n, prophet, xgb, fault))

\* The try block of process_product for one item.  columns are the columns
\* of the frame, item its history profile [n, cv, anoms], fault the stage
\* whose code raises ("none": nothing raises), outcome the training outcome
\* of each model.  raised is the stage whose exception reaches the except
\* clause ("none": the block returned data); the other fields are the
\* locals assigned by then, volatility being the volatility_info['cv']
\* handed to ensemble_predict.
process_product_try(name, item, columns, fault, outcome) ==
    AfterTraining(name, item, columns, fault,
        train_prophet_model(item.n, fault = "prophet", outcome["prophet"]),
        train_xgboost_model(item.n, fault = "xgboost", outcome["xgboost"]),
        LSTMPredictor_train(item.n, fault = "lstm", outcome["lstm"]),
        LightGBMPredictor_train(item.n, fault = "lightgbm",
                                outcome["lightgbm"]))

\* A handler that catches ValueError only: except ValueError as e.  The
\* code's own raises (the required-column check, "no valid prediction")
\* are ValueErrors; a library failure is not.
CatchValueError(attempt) ==
    IF attempt.raised = "none"
    THEN [escaped |-> FALSE, data |-> attempt.data]
    ELSE IF attempt.raised \in {"anomaly", "no_model"}
    THEN [escaped |-> FALSE, data |-> EmptyDict]
    ELSE [escaped |-> TRUE, data |-> EmptyDict]

\* except Exception as e: ...; return product_name, {}
\* escaped tells that the exception left process_product instead.
CatchAll(attempt) ==
    IF attempt.raised = "none"
    THEN [escaped |-> FALSE, data |-> attempt.data]
    ELSE [escaped |-> FALSE, data |-> EmptyDict]

\* process_product(args) -> (product_name, data)
process_product(name, item, columns, fault, outcome) ==
    LET attempt == process_product_try(name, item, columns, fault, outcome)
        returned == CatchAll(attempt)
    IN  [name |-> name, fault |-> fault, locals |-> attempt,
         escaped |-> returned.escaped, data |-> returned.data]

(***************************************************************************)
(* run_parallel_processing (parallel_processor.py)                         *)
(***************************************************************************)
\* Largest number of items in a batch.
MaxItems == 2

\* Item names, in groupby (sorted) order.
ItemNames == <<"A", "B", "C", "D">>

\* Item histories: n rows on the days 1..n, coefficient of variation cv,
\* anoms rows flagged by the anomaly detector.
Histories ==
    { [n |-> 20, cv |-> Rat(5, 10),  anoms |-> 1],
      [n |-> 40, cv |-> Rat(0, 10),  anoms |-> 0],
      [n |-> 55, cv |-> Rat(2, 10),  anoms |-> 2],
      [n |-> 70, cv |-> Rat(15, 10), anoms |-> 1] }

\* What a successful fit reports on its holdout.
Outcomes == { [acc |-> 0, mae |-> 40], [acc |-> 50, mae |-> 20] }

\* The outcome given to a model whose fit does not complete (never read).
NoOutcome == [acc |-> 0, mae |-> 0]

\* The fault is at a statement the call executes: it changes the call.
FaultFires(name, item, columns, fault, outcome) ==
    \/ fault = "none"
    \/ process_product_try(name, item, columns, fault, outcome)
         # process_product_try(name, item, columns, "none", outcome)

\* Training outcomes for the models whose fit completes.
OutcomeChoices(n, fault) ==
    {o \in [ModelKinds -> Outcomes \cup {NoOutcome}] :
        \A m \in ModelKinds :
            o[m] = NoOutcome <=> (TooShort(m, n) \/ fault = m)}

\* A loop that stores every returned dict: models_data[name] = data
StoreAny(md, name, data) ==
    [x \in DOMAIN md \cup {name} |-> IF x = name THEN data ELSE md[x]]

\* if data: models_data[name] = data
StoreResult(md, name, data) ==
    IF data # EmptyDict
    THEN [x \in DOMAIN md \cup {name} |-> IF x = name THEN data ELSE md[x]]
    ELSE md

\* if data: if 'anomaly_log' in data and ... is not None and not ....empty:
\*     all_anomaly_logs.append(data['anomaly_log'])
CollectLog(logs, data) ==
    IF /\ data # EmptyDict
       /\ "anomaly_log" \in DOMAIN data
       /\ data["anomaly_log"] # << >>
    THEN Append(logs, data["anomaly_log"])
    ELSE logs

\* pd.concat(all_anomaly_logs, ignore_index=True), pd.DataFrame() if none
RECURSIVE Concat(_)
Concat(logs) ==
    IF logs = << >> THEN << >> ELSE Head(logs) \o Concat(Tail(logs))

\* app.py's aggregate average accuracy: the entries of the result mapping
\* that are dicts with a non-empty 'ensemble_performance'.
AvgAccContributors(md) ==
    {x \in DOMAIN md :
        /\ x # "total_anomaly_log"
        /\ Get(md[x], "ensemble_performance", EmptyDict) # EmptyDict}

PInit ==
    /\ pc = "start"
    /\ cols \in SUBSET Required
    /\ \E k \in 0..MaxItems :
          batch \in [{ItemNames[j] : j \in 1..k} -> Histories]
    /\ tasks = << >>
    /\ task_idx = 1
    /\ models_data = EmptyDict
    /\ all_anomaly_logs = << >>
    /\ last = None

\* tasks = [(name, group) for name, group in _df.groupby('품목명')]
GroupBy ==
    /\ pc = "start"
    /\ IF "item" \notin cols
       THEN /\ pc' = "raised"
            /\ UNCHANGED tasks
       ELSE /\ pc' = "loop"
            /\ tasks' = SelectSeq(ItemNames, LAMBDA x : x \in DOMAIN batch)
    /\ UNCHANGED <<cols, batch, task_idx, models_data, all_anomaly_logs, last>>
    /\ UNCHANGED <<wvars, lvars, avars, nvars, tvars, fvars>>

\* One iteration of: for task in tasks: name, data = process_product(task)
ProcessTask ==
    /\ pc = "loop"
    /\ task_idx <= Len(tasks)
    /\ \E fault \in Stages \cup {"none"} :
       \E outcome \in OutcomeChoices(batch[tasks[task_idx]].n, fault) :
          LET name == tasks[task_idx]
              call == process_product(name, batch[name], cols, fault, outcome)
          IN  /\ FaultFires(name, batch[name], cols, fault, outcome)
              /\ last' = Some(call)
              /\ IF call.escaped
                 THEN /\ pc' = "raised"
                      /\ UNCHANGED <<task_idx, models_data, all_anomaly_logs>>
                 ELSE /\ pc' = "loop"
                      /\ task_idx' = task_idx + 1
                      /\ models_data' = StoreResult(models_data, name, call.data)
                      /\ all_anomaly_logs' =
                            CollectLog(all_anomaly_logs, call.data)
    /\ UNCHANGED <<cols, batch, tasks>>
    /\ UNCHANGED <<wvars, lvars, avars, nvars, tvars, fvars>>

\* models_data['total_anomaly_log'] = ...; return models_data
Finish ==
    /\ pc = "loop"
    /\ task_idx > Len(tasks)
    /\ pc' = "done"
    /\ models_data' =
          [x \in DOMAIN models_data \cup {"total_anomaly_log"} |->
              IF x = "total_anomaly_log" THEN Concat(all_anomaly_logs)
              ELSE models_data[x]]
    /\ UNCHANGED <<cols, batch, tasks, task_idx, all_anomaly_logs, last>>
    /\ UNCHANGED <<wvars, lvars, avars, nvars, tvars, fvars>>

(***************************************************************************)
(* The factor synthesizer on one item inside two batches                   *)
(* (external_factor_detector.py, parallel_processor.py:148)                *)
(*                                                                         *)
(* A frame is the sequence of its rows' item names; row k of the frame has *)
(* index label k - 1 (the RangeIndex of a freshly read or reset frame),    *)
(* and the j-th row of an item is its day j.                               *)
(***************************************************************************)
\* Largest number of rows in a frame.
MaxRows == 4

\* The item observed and another item of the batch.
Watched == "X"
LeakItems == {"X", "Y"}

\* df.groupby('품목명') / df[df['품목명'] == name]: the rows of the item,
\* each with the index label it has in the frame and its day.
RECURSIVE GroupRows(_, _, _)
GroupRows(frame, name, k) ==
    IF k > Len(frame) THEN << >>
    ELSE IF frame[k] = name
    THEN <<k - 1>> \o GroupRows(frame, name, k + 1)
    ELSE GroupRows(frame, name, k + 1)

GroupOf(frame, name) ==
    LET labels == GroupRows(frame, name, 1)
    IN  [j \in DOMAIN labels |-> [index |-> labels[j], day |-> j]]

\* The value sin(2*pi*k/period), named by the least residue with that sine:
\* residues r, q have the same sine iff r = q or r + q = period/2 (mod period).
SinOf(k, period) ==
    LET r == k % period
        same == {q \in 0..(period - 1) :
                    q = r \/ (2 * (r + q)) % (2 * period) = period}
    IN  CHOOSE q \in same : \A x \in same : q <= x

\* The value cos(2*pi*k/period): residues r, q have the same cosine iff
\* r = q or r + q = 0 (mod period).
CosOf(k, period) ==
    LET r == k % period
    IN  Min(r, (period - r) % period)

\* ExternalFactorDetector._detect_cyclic_patterns on an item's rows.
detect_cyclic_patterns(rows) ==
    [j \in DOMAIN rows |->
        [weekly_sin   |-> SinOf(rows[j].index, 7),
         weekly_cos   |-> CosOf(rows[j].index, 7),
         biweekly_sin |-> SinOf(rows[j].index, 14),
         monthly_sin  |-> SinOf(rows[j].day, 30)]]

Frames == UNION {[1..k -> LeakItems] : k \in 1..MaxRows}

RowsOf(frame, name) == Len(GroupRows(frame, name, 1))

(***************************************************************************)
(* SmartDemandPreprocessor (anomaly_analyzer.py) on one item's frame       *)
(*                                                                         *)
(* A row is [date, qty, promotion, event, weather, temp].  qty is Some(x)  *)
(* or NaN.  The covariates are what row.get(...) gives:                    *)
(*   promotion  "absent" (None), "0", "1"                                  *)
(*   event      "absent" (None or NaN), "none_label" ('없음'), "empty"     *)
(*              (the string ''), "discount" (holds '할인'), "holiday"      *)
(*              (holds '명절'), "holiday_discount" (holds both), "other"   *)
(*   weather    "absent", "rain" (holds '비'), "sunny" (holds '맑음'),     *)
(*              "cloudy"                                                   *)
(*   temp       Some(degrees) or None (the default 15 applies)             *)
(* A z-score is NaN, or sign * sqrt(sq) with sq an exact rational.         *)
(***************************************************************************)
NaN == << >>

\* z_score_threshold = 2.5, in tenths
Z_SCORE_THRESHOLD_TENTHS == 25
\* row.get('기온', 15)
DEFAULT_TEMP == 15
\* row.get('기온', 15) > 25
HOT_TEMP == 25

ZNaN == [nan |-> TRUE, sign |-> 0, sq |-> RatInt(0)]
ZZero == [nan |-> FALSE, sign |-> 0, sq |-> RatInt(0)]

\* The quantities of the rows that are not NaN (mean and std skip NaN).
PresentQty(rows) ==
    LET present == SelectSeq(rows, LAMBDA r : r.qty # NaN)
    IN  [k \in DOMAIN present |-> present[k].qty[1]]

RECURSIVE SumSeq(_)
SumSeq(xs) == IF xs = << >> THEN 0 ELSE Head(xs) + SumSeq(Tail(xs))

\* count * (x - mean) for x among count values of sum total
ScaledDev(x, count, total) == count * x - total

\* count^2 times the sum of squared deviations from the mean
ScaledSS(xs) ==
    LET count == Len(xs)
        total == SumSeq(xs)
    IN  SumSeq([k \in DOMAIN xs |->
                   ScaledDev(xs[k], count, total) * ScaledDev(xs[k], count, total)])

\* series.std() (ddof = 1) is NaN for fewer than two values
StdIsNaN(xs) == Len(xs) < 2
\* std == 0
StdIsZero(xs) == ~StdIsNaN(xs) /\ ScaledSS(xs) = 0

\* The scores without the std == 0 branch: 0 / 0 is NaN.
calculate_z_score_unguarded(rows) ==
    LET xs == PresentQty(rows)
        count == Len(xs)
        total == SumSeq(xs)
        ss == ScaledSS(xs)
    IN  [k \in DOMAIN rows |->
            IF StdIsNaN(xs) \/ rows[k].qty = NaN \/ ss = 0 THEN ZNaN
            ELSE LET dev == ScaledDev(rows[k].qty[1], count, total)
                 IN  [nan |-> FALSE,
                      sign |-> IF dev > 0 THEN 1 ELSE IF dev < 0 THEN -1 ELSE 0,
                      sq |-> Rat(dev * dev * (count - 1), ss)]]

\* _calculate_z_score(series): the score of every row.
\*   std == 0: pd.Series(0, index=series.index); else (series - mean) / std,
\*   which is NaN where the quantity is NaN and everywhere when std is NaN.
calculate_z_score(rows) ==
    LET xs == PresentQty(rows)
        count == Len(xs)
        total == SumSeq(xs)
        ss == ScaledSS(xs)
    IN  [k \in DOMAIN rows |->
            IF StdIsZero(xs) THEN ZZero
            ELSE IF StdIsNaN(xs) \/ rows[k].qty = NaN THEN ZNaN
            ELSE LET dev == ScaledDev(rows[k].qty[1], count, total)
                 IN  [nan |-> FALSE,
                      sign |-> IF dev > 0 THEN 1 ELSE IF dev < 0 THEN -1 ELSE 0,
                      sq |-> Rat(dev * dev * (count - 1), ss)]]

\* abs(z) > z_score_threshold (False for NaN)
AbsAboveThreshold(z) ==
    /\ ~z.nan
    /\ ~RatLeq(z.sq, Rat(Z_SCORE_THRESHOLD_TENTHS * Z_SCORE_THRESHOLD_TENTHS,
                         100))

\* A classification by abs(z_score) alone: every outlier is a spike.
define_anomaly_type_unsigned(qty, z) ==
    IF qty = NaN THEN "missing"
    ELSE IF AbsAboveThreshold(z) THEN "spike"
    ELSE "normal"

\* _define_anomaly_type(row): '결측' missing, '급등' spike, '급감' dip,
\* '정상' normal
define_anomaly_type(qty, z) ==
    IF qty = NaN THEN "missing"
    ELSE IF AbsAboveThreshold(z) /\ z.sign > 0 THEN "spike"
    ELSE IF AbsAboveThreshold(z) /\ z.sign < 0 THEN "dip"
    ELSE "normal"

\* The rules with the missing check moved behind the covariate rules.
infer_reason_missing_last(row, anomaly_type) ==
    LET temp == IF row.temp = None THEN DEFAULT_TEMP ELSE row.temp[1]
    IN  IF /\ \/ row.promotion = "1"
              \/ row.event \in {"discount", "holiday_discount"}
           /\ anomaly_type = "spike"
        THEN "promotion"
        ELSE IF row.weather = "rain" /\ anomaly_type = "dip"
        THEN "bad_weather"
        ELSE IF row.weather = "sunny" /\ temp > HOT_TEMP
                /\ anomaly_type = "spike"
        THEN "hot_weather"
        ELSE IF row.event \notin {"absent", "none_label"}
        THEN IF row.event \in {"holiday", "holiday_discount"}
                /\ anomaly_type = "spike"
             THEN "special_event"
             ELSE "event_effect"
        ELSE IF anomaly_type = "missing" THEN "stockout_or_gap"
        ELSE "statistical_outlier"

\* _infer_reason(row), by the first rule that applies.
infer_reason(row, anomaly_type) ==
    LET temp == IF row.temp = None THEN DEFAULT_TEMP ELSE row.temp[1]
    IN  IF anomaly_type = "missing" THEN "stockout_or_gap"
        ELSE IF /\ \/ row.promotion = "1"
                   \/ row.event \in {"discount", "holiday_discount"}
                /\ anomaly_type = "spike"
        THEN "promotion"
        ELSE IF row.weather = "rain" /\ anomaly_type = "dip"
        THEN "bad_weather"
        ELSE IF row.weather = "sunny" /\ temp > HOT_TEMP
                /\ anomaly_type = "spike"
        THEN "hot_weather"
        ELSE IF row.event \notin {"absent", "none_label"}
        THEN IF row.event \in {"holiday", "holiday_discount"}
                /\ anomaly_type = "spike"
             THEN "special_event"
             ELSE "event_effect"
        ELSE "statistical_outlier"

\* _detect_anomalies_and_missing(group_df): the log rows of the flagged
\* rows, in frame order.
detect_anomalies_and_missing(rows) ==
    LET z == calculate_z_score(rows)
        scored == [k \in DOMAIN rows |->
                      [row |-> rows[k], z_score |-> z[k]]]
        flagged == SelectSeq(scored,
                       LAMBDA e : AbsAboveThreshold(e.z_score) \/ e.row.qty = NaN)
    IN  [k \in DOMAIN flagged |->
            LET kind == define_anomaly_type(flagged[k].row.qty,
                                            flagged[k].z_score)
            IN  [date |-> flagged[k].row.date,
                 qty |-> flagged[k].row.qty,
                 kind |-> kind,
                 reason |-> infer_reason(flagged[k].row, kind),
                 z_score |-> flagged[k].z_score]]

\* series.fillna(0.0) on the score column
FillScore(z) == IF z.nan THEN ZZero ELSE z

\* pd.merge(df, anomaly_features, on=['날짜', '품목명'], how='left') for one
\* row: a row per log row of the same date, one unmatched row when none;
\* then the four fillna calls.
MergeRow(row, log) ==
    LET hits == SelectSeq(log, LAMBDA e : e.date = row.date)
    IN  IF hits = << >>
        THEN << [date |-> row.date, qty |-> row.qty, is_anomaly |-> FALSE,
                 anomaly_type |-> "normal", anomaly_reason |-> "normal",
                 anomaly_score |-> ZZero] >>
        ELSE [k \in DOMAIN hits |->
                 [date |-> row.date, qty |-> row.qty, is_anomaly |-> TRUE,
                  anomaly_type |-> hits[k].kind,
                  anomaly_reason |-> hits[k].reason,
                  anomaly_score |-> FillScore(hits[k].z_score)]]

RECURSIVE MergeRows(_, _)
MergeRows(rows, log) ==
    IF rows = << >> THEN << >>
    ELSE MergeRow(Head(rows), log) \o MergeRows(Tail(rows), log)

\* _create_features_from_log(df)
create_features_from_log(rows, log) ==
    IF log = << >>
    THEN [k \in DOMAIN rows |->
             [date |-> rows[k].date, qty |-> rows[k].qty,
              is_anomaly |-> FALSE, anomaly_type |-> "normal",
              anomaly_reason |-> "normal", anomaly_score |-> ZZero]]
    ELSE MergeRows(rows, log)

\* Largest number of freely chosen rows at the end of a frame.
\* A coefficient of variation is kept as its square, an exact rational
\* (the code's cv is never negative).  cv < bound_tenths / 10
CvBelow(cv_sq, bound_tenths) ==
    RatLess(cv_sq, Rat(bound_tenths * bound_tenths, 100))

\* volatility_level: '매우 안정' very stable, '안정' stable, '변동성 있음'
\* volatile, '매우 변동적' very volatile
VolatilityLevel(cv_sq) ==
    IF CvBelow(cv_sq, 2) THEN "very_stable"
    ELSE IF CvBelow(cv_sq, 5) THEN "stable"
    ELSE IF CvBelow(cv_sq, 10) THEN "volatile"
    ELSE "very_volatile"

\* ExternalFactorDetector._analyze_volatility(df): np.std (ddof = 0) over
\* np.mean when the mean is > 0, else 0; np.mean is NaN, and not > 0, when
\* a quantity is NaN.
analyze_volatility(rows) ==
    LET xs == PresentQty(rows)
        count == Len(xs)
        total == SumSeq(xs)
        cv_sq == IF count = Len(rows) /\ total > 0
                 THEN Rat(ScaledSS(xs), count * total * total)
                 ELSE RatInt(0)
    IN  [cv_sq |-> cv_sq, level |-> VolatilityLevel(cv_sq)]

MaxFree == 2

QtyValues == {NaN, Some(0), Some(10), Some(100)}
Promotions == {"absent", "0", "1"}
Events == {"absent", "none_label", "empty", "discount", "holiday",
           "holiday_discount", "other"}
Weathers == {"absent", "rain", "sunny", "cloudy"}
Temps == {None, Some(20), Some(30)}

PlainRow(date, qty) ==
    [date |-> date, qty |-> qty, promotion |-> "absent", event |-> "absent",
     weather |-> "absent", temp |-> None]

\* Frames sorted by date with unique dates: a run of equal quantities, then
\* up to MaxFree free rows, the last one with free covariates.
AnomalyFrames ==
    { [k \in 1..(m + Len(free)) |->
          IF k <= m THEN PlainRow(k, Some(base))
          ELSE IF k < m + Len(free) THEN PlainRow(k, free[k - m])
          ELSE [date |-> k, qty |-> free[k - m], promotion |-> cov[1],
                event |-> cov[2], weather |-> cov[3], temp |-> cov[4]]] :
      m \in {0, 1, 9}, base \in {10, 100},
      free \in UNION {[1..f -> QtyValues] : f \in 1..MaxFree},
      cov \in Promotions \X Events \X Weathers \X Temps }

NInit ==
    /\ an_pc = "idle"
    /\ an_df \in AnomalyFrames
    /\ an_log = << >>
    /\ an_out = << >>
    /\ an_vol = None

\* Step 1 of process_product: volatility_info of the item's frame.
AnalyzeVolatility ==
    /\ an_pc = "idle"
    /\ an_vol = None
    /\ an_vol' = Some(analyze_volatility(an_df))
    /\ UNCHANGED <<an_pc, an_df, an_log, an_out>>
    /\ UNCHANGED <<wvars, pvars, lvars, avars, tvars, fvars>>

\* SmartDemandPreprocessor.process(df) -> (processed_df, anomaly_log),
\* step 2 of process_product.
Process ==
    /\ an_pc = "idle"
    /\ an_vol # None
    /\ LET log == detect_anomalies_and_missing(an_df)
       IN  /\ an_log' = log
           /\ an_out' = create_features_from_log(an_df, log)
    /\ an_pc' = "done"
    /\ UNCHANGED <<an_df, an_vol>>
    /\ UNCHANGED <<wvars, pvars, lvars, avars, tvars, fvars>>

(***************************************************************************)
(* One trainer on one history (model_trainer.py, advanced_models.py)       *)
(*                                                                         *)
(* A trainer's rows are sets of days of the history 1..n: the rows whose   *)
(* quantities are the targets of the reported accuracy and MAE (holdout),  *)
(* the rows passed to the hyperparameter search, to the final fit, and to  *)
(* the validation set that early stopping watches.  The values a trainer   *)
(* hands on are modelled for MaxRaw elements of its prediction array, each *)
(* computed from what the fitted model's predict returned for it.          *)
(***************************************************************************)
\* Rows a..b of the history.
RowSet(a, b) == {d \in 1..b : d >= a}

\* np.maximum(x, 0) and max(0, x)
ClampAtZero(x) == IF RatLeq(x, RatInt(0)) THEN RatInt(0) ELSE x

\* train_prophet_model: train_data = iloc[:-test_days] is fitted, test_data
\* = iloc[-test_days:] is scored; no search, no early stopping.
train_prophet_rows(n) ==
    LET test_days == HoldoutSize(n)
    IN  [holdout |-> RowSet(n - test_days + 1, n),
         optimizer |-> {},
         fit |-> RowSet(1, n - test_days),
         early_stop |-> {}]

\* train_xgboost_model: the last 30 rows are scored; optimize_xgboost and
\* the final fit get X_train, y_train; the final fit has no eval_set.
train_xgboost_rows(n) ==
    [holdout |-> RowSet(n - XGB_TEST_DAYS + 1, n),
     optimizer |-> RowSet(1, n - XGB_TEST_DAYS),
     fit |-> RowSet(1, n - XGB_TEST_DAYS),
     early_stop |-> {}]

\* The days of the window prepare_sequences builds at 0-based index i:
\* inputs data[i-lookback_days:i], targets data[i:i+forecast_days].
WindowInputs(i) == RowSet(i - LOOKBACK_DAYS + 1, i)
WindowTargets(i) == RowSet(i + 1, i + FORECAST_DAYS)

\* LSTMPredictor.train: the last test_size windows are scored; model.fit
\* gets the windows before them and, with validation_split=0.1, watches
\* the last tenth of those for early stopping and fits on the others.
LSTMPredictor_train_rows(n) ==
    LET X == prepare_sequences(n)
        test_size == HoldoutSize(X.len)
        n_train == X.len - test_size
        split_at == (n_train * 9) \div 10
        At(j) == DayAt(X, j)
    IN  [holdout |-> UNION {WindowTargets(At(j)) : j \in (n_train + 1)..X.len},
         optimizer |-> {},
         fit |-> UNION {WindowInputs(At(j)) \cup WindowTargets(At(j)) :
                          j \in 1..split_at},
         early_stop |-> UNION {WindowInputs(At(j)) \cup WindowTargets(At(j)) :
                                 j \in (split_at + 1)..n_train}]

\* LightGBMPredictor.train: the last test_size rows are scored, and the
\* same rows are valid_data, the only entry of valid_sets that
\* lgb.early_stopping watches.
LightGBMPredictor_train_rows(n) ==
    LET test_size == HoldoutSize(n)
    IN  [holdout |-> RowSet(n - test_size + 1, n),
         optimizer |-> {},
         fit |-> RowSet(1, n - test_size),
         early_stop |-> RowSet(n - test_size + 1, n)]

TrainerRows(kind, n) ==
    CASE kind = "prophet"  -> train_prophet_rows(n)
      [] kind = "xgboost"  -> train_xgboost_rows(n)
      [] kind = "lstm"     -> LSTMPredictor_train_rows(n)
      [] kind = "lightgbm" -> LightGBMPredictor_train_rows(n)

\* MinMaxScaler.inverse_transform after fit on quantities with the given
\* minimum and maximum: x * (max - min) + min, a zero range counting as 1.
inverse_transform(range, x) ==
    LET span == IF range[2] = range[1] THEN 1 ELSE range[2] - range[1]
    IN  RatAdd(RatMul(x, RatInt(span)), RatInt(range[1]))

\* The held-out prediction array a trainer returns, from the fitted
\* model's output: y_pred_test (Prophet, XGBoost), y_pred_original (LSTM),
\* y_pred (LightGBM).
HeldOutPredictions(kind, range, raw) ==
    [k \in DOMAIN raw |->
        IF kind = "lstm" THEN inverse_transform(range, raw[k])
        ELSE ClampAtZero(raw[k])]

\* The future forecast a trainer returns: final_forecast['yhat'] of
\* Prophet; the other trainers return none.
FutureForecast(kind, raw) ==
    IF kind = "prophet" THEN [k \in DOMAIN raw |-> ClampAtZero(raw[k])]
    ELSE << >>

MaxRaw == 2
TrainLengths == {20, 29, 30, 50, 51, 59, 60, 70, 149, 150}
RawOutputs == {Rat(-1, 2), Rat(0, 1), Rat(1, 2), Rat(3, 1)}
QuantityRanges == {<<0, 10>>, <<5, 5>>, <<2, 8>>}

TInit ==
    /\ t_pc = "idle"
    /\ t_kind \in ModelKinds
    /\ t_n \in TrainLengths
    /\ \E k \in 1..MaxRaw : t_raw \in [1..k -> RawOutputs]
    /\ t_raw_future \in [1..1 -> RawOutputs]
    /\ t_range \in QuantityRanges
    /\ t_res = EmptyDict

\* One call of the trainer t_kind whose fit and predict complete.
Train ==
    /\ t_pc = "idle"
    /\ t_pc' = "done"
    /\ t_res' =
          IF TooShort(t_kind, t_n)
          THEN [trained |-> FALSE, rows |-> None, predictions |-> << >>,
                forecast |-> << >>]
          ELSE [trained |-> TRUE,
                rows |-> Some(TrainerRows(t_kind, t_n)),
                predictions |-> HeldOutPredictions(t_kind, t_range, t_raw),
                forecast |-> FutureForecast(t_kind, t_raw_future)]
    /\ UNCHANGED <<t_kind, t_n, t_raw, t_raw_future, t_range>>
    /\ UNCHANGED <<wvars, pvars, lvars, avars, nvars, fvars>>

(***************************************************************************)
(* predict_xgboost_future (model_trainer.py:123-233)                       *)
(*                                                                         *)
(* A row of the frame is [date, qty, anomaly]; anomaly holds the four      *)
(* anomaly columns, or None where the frame has no value for them (the     *)
(* columns are absent, or NaN after a concat with a frame that has them).  *)
(* Of the engineered features the model keeps the one-day lag of the       *)
(* quantity, is_anomaly and anomaly_score, and the further numeric columns *)
(* of the frame with the value 1.  A feature vector is a sequence of       *)
(* <<name, value>>.                                                        *)
(***************************************************************************)
\* The anomaly columns of a row that is not anomalous.
NormalAnomaly ==
    [is_anomaly |-> FALSE, anomaly_type |-> "normal",
     anomaly_reason |-> "normal", anomaly_score |-> 0]

\* 'is_anomaly' in temp_df.columns (and likewise the other three)
HasAnomalyColumns(frame) == \E k \in DOMAIN frame : frame[k].anomaly # None

\* expected_features: the booster's feature names, f0.. when it has none.
ExpectedFeatures(xgb_model) ==
    IF xgb_model.feature_names # None THEN xgb_model.feature_names[1]
    ELSE [k \in 1..xgb_model.n_features_in_ |->
             CASE k = 1 -> "f0" [] k = 2 -> "f1" [] OTHER -> "f2"]

\* next_day_row and temp_df of one iteration: the last row of
\* historical_df copied with the next date and quantity 0, appended; the
\* anomaly columns get their defaults only when temp_df has none of them.
TempFrame(historical_df, next_date) ==
    LET next_day_row ==
            [historical_df[Len(historical_df)] EXCEPT
                !.date = next_date, !.qty = 0]
        temp_df == Append(historical_df, next_day_row)
    IN  IF HasAnomalyColumns(temp_df) THEN temp_df
        ELSE [k \in DOMAIN temp_df |->
                 [temp_df[k] EXCEPT !.anomaly = Some(NormalAnomaly)]]

\* features.tail(1) of create_xgboost_features(temp_df, product_name): the
\* frame's numeric columns in their order, then the lag column; NaN left
\* in the row becomes 0 (bfill().fillna(0) on the last row).
LastFeatures(temp_df, extras) ==
    LET row == temp_df[Len(temp_df)]
        a == IF row.anomaly # None THEN row.anomaly[1] ELSE NormalAnomaly
        lag_1 == IF Len(temp_df) > 1 THEN temp_df[Len(temp_df) - 1].qty
                 ELSE 0
    IN  [k \in DOMAIN extras |-> <<extras[k], 1>>]
        \o << <<"is_anomaly", IF a.is_anomaly THEN 1 ELSE 0>>,
               <<"anomaly_score", a.anomaly_score>>,
               <<"lag_1", lag_1>> >>

FeatureNames(features) == {features[k][1] : k \in DOMAIN features}
FeatureValue(features, name) ==
    LET k == CHOOSE j \in DOMAIN features : features[j][1] = name
    IN  features[k][2]

\* The selection without the fill of the missing features and without the
\* reordering: the engineered columns that are expected, as engineered.
AlignFeaturesAsEngineered(expected_features, last_features) ==
    SelectSeq(last_features,
              LAMBDA f : \E k \in DOMAIN expected_features :
                            expected_features[k] = f[1])

\* if expected_features: missing features are set to 0, then
\* last_features = last_features[expected_features]
AlignFeatures(expected_features, last_features) ==
    IF expected_features = << >> THEN last_features
    ELSE [k \in DOMAIN expected_features |->
             IF expected_features[k] \in FeatureNames(last_features)
             THEN <<expected_features[k],
                    FeatureValue(last_features, expected_features[k])>>
             ELSE <<expected_features[k], 0>>]

\* A new_row that keeps the placeholder quantity of next_day_row.
NewRowPlaceholder(next_date, next_pred) ==
    [date |-> next_date, qty |-> 0, anomaly |-> Some(NormalAnomaly)]

\* new_row: the prediction with the anomaly columns of a normal day.
NewRow(next_date, next_pred) ==
    [date |-> next_date, qty |-> next_pred, anomaly |-> Some(NormalAnomaly)]

\* historical_df['날짜'].max()
LastDate(frame) ==
    CHOOSE d \in {frame[k].date : k \in DOMAIN frame} :
        \A k \in DOMAIN frame : frame[k].date <= d

MaxHistory == 2
ExtraColumns == {<< >>, <<"month">>}
RawPredictions == {-4, 6}
TrainedNames ==
    {<<"is_anomaly", "anomaly_score", "lag_1">>,
     <<"lag_1", "is_anomaly">>,
     <<"month", "lag_1", "promo_1">>,
     <<"lag_1">>}
FittedModels ==
    {[feature_names |-> Some(names), n_features_in_ |-> Len(names)] :
        names \in TrainedNames}
    \cup {[feature_names |-> None, n_features_in_ |-> 2]}
LastRowAnomalies ==
    {None, Some(NormalAnomaly),
     Some([is_anomaly |-> TRUE, anomaly_type |-> "spike",
           anomaly_reason |-> "promotion", anomaly_score |-> 3])}

\* The processed frames of an item: days 1..len of quantity 10, the last
\* row with any anomaly status; all rows without anomaly columns when the
\* frame has none.
FutureFrames ==
    {[k \in 1..len |->
         [date |-> k, qty |-> 10,
          anomaly |-> IF last_anomaly = None THEN None
                      ELSE IF k = len THEN last_anomaly
                      ELSE Some(NormalAnomaly)]] :
        len \in 1..MaxHistory, last_anomaly \in LastRowAnomalies}

FInit ==
    /\ f_pc = "start"
    /\ f_model \in {None} \cup {Some(m) : m \in FittedModels}
    /\ f_df \in FutureFrames
    /\ f_extras \in ExtraColumns
    /\ f_expected = None
    /\ f_hist = << >>
    /\ f_temp_last = None
    /\ f_engineered = None
    /\ f_fed = None
    /\ f_preds = << >>
    /\ f_i = 0
    /\ f_ret = << >>

\* Lines 128-150: no model gives an empty frame; otherwise the expected
\* features, the copy of the history and the empty prediction list.
Enter ==
    /\ f_pc = "start"
    /\ IF f_model = None
       THEN /\ f_pc' = "returned"
            /\ UNCHANGED <<f_expected, f_hist>>
       ELSE /\ f_pc' = "loop"
            /\ f_expected' = Some(ExpectedFeatures(f_model[1]))
            /\ f_hist' = f_df
    /\ UNCHANGED <<f_model, f_df, f_extras, f_temp_last, f_engineered, f_fed,
                   f_preds, f_i, f_ret>>
    /\ UNCHANGED <<wvars, pvars, lvars, avars, nvars, tvars>>

\* One iteration of: for i in range(days_to_predict), with what
\* xgb_model.predict returns drawn from RawPredictions.
FutureStep ==
    /\ f_pc = "loop"
    /\ f_i < DAYS_TO_PREDICT
    /\ \E raw \in RawPredictions :
          LET next_date == LastDate(f_df) + f_i + 1
              temp_df == TempFrame(f_hist, next_date)
              last_features == LastFeatures(temp_df, f_extras)
              next_pred == Max(0, raw)
          IN  /\ f_temp_last' = Some(temp_df[Len(temp_df)])
              /\ f_engineered' = Some(last_features)
              /\ f_fed' = Some(AlignFeatures(f_expected[1], last_features))
              /\ f_hist' = Append(f_hist, NewRow(next_date, next_pred))
              /\ f_preds' = Append(f_preds, [date |-> next_date,
                                             qty |-> next_pred])
    /\ f_i' = f_i + 1
    /\ UNCHANGED <<f_pc, f_model, f_df, f_extras, f_expected, f_ret>>
    /\ UNCHANGED <<wvars, pvars, lvars, avars, nvars, tvars>>

\* An iteration that raises: except Exception returns pd.DataFrame().
FutureRaise ==
    /\ f_pc = "loop"
    /\ f_i < DAYS_TO_PREDICT
    /\ f_pc' = "caught"
    /\ f_ret' = << >>
    /\ UNCHANGED <<f_model, f_df, f_extras, f_expected, f_hist, f_temp_last,
                   f_engineered, f_fed, f_preds, f_i>>
    /\ UNCHANGED <<wvars, pvars, lvars, avars, nvars, tvars>>

\* return pd.DataFrame(future_predictions)
FutureReturn ==
    /\ f_pc = "loop"
    /\ f_i = DAYS_TO_PREDICT
    /\ f_pc' = "returned"
    /\ f_ret' = f_preds
    /\ UNCHANGED <<f_model, f_df, f_extras, f_expected, f_hist, f_temp_last,
                   f_engineered, f_fed, f_preds, f_i>>
    /\ UNCHANGED <<wvars, pvars, lvars, avars, nvars, tvars>>

(***************************************************************************)
(* Specifications                                                          *)
(***************************************************************************)
\* The variables of a specification that is not running.
WQuiet ==
    /\ w_pc = "off" /\ w_vol = Rat(0, 1) /\ w_perf = EmptyDict
    /\ w_ret = EmptyDict /\ w_self = EmptyDict

PQuiet ==
    /\ pc = "off" /\ cols = {} /\ batch = EmptyDict /\ tasks = << >>
    /\ task_idx = 1 /\ models_data = EmptyDict /\ all_anomaly_logs = << >>
    /\ last = None

LQuiet ==
    /\ l_pc = "off" /\ l_frameA = << >> /\ l_frameB = << >>
    /\ l_colsA = << >> /\ l_colsB = << >>

AQuiet ==
    /\ adj_pc = "off" /\ adj_perf = EmptyDict /\ adj_lo = Rat(0, 1)
    /\ adj_hi = Rat(0, 1) /\ adj_at_lo = EmptyDict /\ adj_at_hi = EmptyDict

NQuiet ==
    /\ an_pc = "off" /\ an_df = << >> /\ an_log = << >> /\ an_out = << >>
    /\ an_vol = None

TQuiet ==
    /\ t_pc = "off" /\ t_kind = "prophet" /\ t_n = 0 /\ t_raw = << >>
    /\ t_raw_future = << >> /\ t_range = <<0, 0>> /\ t_res = EmptyDict

FQuiet ==
    /\ f_pc = "off" /\ f_model = None /\ f_df = << >> /\ f_extras = << >>
    /\ f_expected = None /\ f_hist = << >> /\ f_temp_last = None
    /\ f_engineered = None /\ f_fed = None /\ f_preds = << >> /\ f_i = 0
    /\ f_ret = << >>

\* Two batches that hold the same rows of the watched item.
LInit ==
    /\ l_pc = "idle"
    /\ l_frameA \in Frames
    /\ l_frameB \in Frames
    /\ RowsOf(l_frameA, Watched) >= 1
    /\ RowsOf(l_frameA, Watched) = RowsOf(l_frameB, Watched)
    /\ l_colsA = << >>
    /\ l_colsB = << >>

\* detect_and_create_factors for the watched item's task of either batch.
LeakRun ==
    /\ l_pc = "idle"
    /\ l_colsA' = detect_cyclic_patterns(GroupOf(l_frameA, Watched))
    /\ l_colsB' = detect_cyclic_patterns(GroupOf(l_frameB, Watched))
    /\ l_pc' = "done"
    /\ UNCHANGED <<l_frameA, l_frameB>>
    /\ UNCHANGED <<wvars, pvars, avars, nvars, tvars, fvars>>

Init == PInit /\ WQuiet /\ LQuiet /\ AQuiet /\ NQuiet /\ TQuiet /\ FQuiet
Next == GroupBy \/ ProcessTask \/ Finish
Spec == Init /\ [][Next]_vars

InitWeights == WInit /\ PQuiet /\ LQuiet /\ AQuiet /\ NQuiet /\ TQuiet /\ FQuiet
NextWeights == WCall
SpecWeights == InitWeights /\ [][NextWeights]_vars

InitLeak == LInit /\ WQuiet /\ PQuiet /\ AQuiet /\ NQuiet /\ TQuiet /\ FQuiet
NextLeak == LeakRun
SpecLeak == InitLeak /\ [][NextLeak]_vars

InitAdjust == AInit /\ WQuiet /\ PQuiet /\ LQuiet /\ NQuiet /\ TQuiet /\ FQuiet
NextAdjust == AdjustTwice
SpecAdjust == InitAdjust /\ [][NextAdjust]_vars

InitAnomaly == NInit /\ WQuiet /\ PQuiet /\ LQuiet /\ AQuiet /\ TQuiet /\ FQuiet
NextAnomaly == AnalyzeVolatility \/ Process
SpecAnomaly == InitAnomaly /\ [][NextAnomaly]_vars

InitTrain == TInit /\ WQuiet /\ PQuiet /\ LQuiet /\ AQuiet /\ NQuiet /\ FQuiet
NextTrain == Train
SpecTrain == InitTrain /\ [][NextTrain]_vars

InitFuture == FInit /\ WQuiet /\ PQuiet /\ LQuiet /\ AQuiet /\ NQuiet /\ TQuiet
NextFuture == Enter \/ FutureStep \/ FutureRaise \/ FutureReturn
SpecFuture == InitFuture /\ [][NextFuture]_vars

(***************************************************************************)
(* Properties of the batch run (Spec)                                      *)
(***************************************************************************)
\* The position in tasks of the item the last call processed.
LastIndex == CHOOSE k \in DOMAIN tasks : tasks[k] = last[1].name

\* C1: an exception raised anywhere in one item's pipeline is caught inside
\* process_product, which then returns the empty result for the item; it
\* never leaves run_parallel_processing (the run raises only in groupby,
\* before any call), and the loop goes on to the next item.
C1_ItemFailureContained ==
    /\ pc = "raised" => (last = None /\ "item" \notin cols)
    /\ last # None =>
          /\ ~last[1].escaped
          /\ last[1].locals.raised # "none" => last[1].data = EmptyDict
          /\ pc \in {"loop", "done"}
          /\ task_idx = LastIndex + 1
    /\ pc = "done" => task_idx = Len(tasks) + 1

\* A run that finished with item A, long enough for all four trainers, lost
\* to an exception and the later item B populated.
C1_Witness ==
    /\ pc = "done"
    /\ DOMAIN batch = {"A", "B"}
    /\ "A" \notin DOMAIN models_data
    /\ ~TooShort("lightgbm", batch["A"].n)
    /\ last[1].name = "B"
    /\ last[1].data # EmptyDict
    /\ "B" \in DOMAIN models_data

\* C2: a training failure in any of the four trainers is caught per model:
\* it does not reach the item-level except clause, the trainers after it
\* still run, and the item is populated when another model predicted.
C2_TrainingFailureCaughtPerModel ==
    (last # None /\ last[1].fault \in ModelKinds) =>
        /\ last[1].locals.raised \in {"none", "no_model"}
        /\ last[1].locals.lstm_result # None
        /\ last[1].locals.lgbm_result # None
        /\ last[1].locals.raised = "none" => last[1].data # EmptyDict

\* C4: every populated result records ensemble weights that cover exactly
\* the models that contributed predictions and sum to 1.
C4_RecordedWeightsCoverContributors ==
    (last # None /\ last[1].data # EmptyDict) =>
        LET w == last[1].data.ensemble_performance.weights
        IN  /\ DOMAIN w = DOMAIN last[1].locals.all_predictions[1]
            /\ RatSum(w) = RatInt(1)

\* C6: every populated result carries a combined future forecast of exactly
\* 7 rows, for the 7 days after the item's last historical date.
C6_SevenDayFutureForecast ==
    (last # None /\ last[1].data # EmptyDict) =>
        LET f == last[1].data.ensemble_forecast
            n == batch[last[1].name].n
        IN  /\ f # None
            /\ Len(f[1]) = DAYS_TO_PREDICT
            /\ \A k \in DOMAIN f[1] : f[1][k].date = n + k

\* C7: each of the four trainers, given a history too short for it, returns
\* without raising a not-trained result with accuracy -1 and MAE -1.
C7_TooShortSentinel ==
    last # None =>
        LET loc == last[1].locals
            n == batch[last[1].name].n
        IN  /\ (loc.prophet_perf # None /\ TooShort("prophet", n))
                  => loc.prophet_perf[1] = NotTrainedPerf
            /\ (loc.xgb_perf # None /\ TooShort("xgboost", n))
                  => loc.xgb_perf[1] = NotTrainedPerf
            /\ TooShort("lstm", n) => loc.raised # "lstm"
            /\ (loc.lstm_result # None /\ TooShort("lstm", n))
                  => Get(loc.lstm_result[1], "performance", EmptyDict)
                        = NotTrainedPerf
            /\ TooShort("lightgbm", n) => loc.raised # "lightgbm"
            /\ (loc.lgbm_result # None /\ TooShort("lightgbm", n))
                  => Get(loc.lgbm_result[1], "performance", EmptyDict)
                        = NotTrainedPerf

\* C8: an item for which no model produced a usable held-out prediction has
\* no entry in the result mapping, gets no blend, and contributes nothing
\* to the aggregate average accuracy.
C8_NoPredictionNoEntry ==
    /\ (last # None /\ last[1].locals.raised = "no_model") =>
          /\ last[1].data = EmptyDict
          /\ last[1].locals.weights = None
          /\ last[1].name \notin DOMAIN models_data
          /\ last[1].name \notin AvgAccContributors(models_data)
    /\ \A k \in 1..(task_idx - 1) :
          (pc \in {"loop", "done"} /\ TooShort("prophet", batch[tasks[k]].n))
             => /\ tasks[k] \notin DOMAIN models_data
                /\ tasks[k] \notin AvgAccContributors(models_data)

\* A finished run whose first item is in the mapping and the aggregate and
\* whose second item had no usable prediction.
C8_Witness ==
    /\ pc = "done"
    /\ last # None
    /\ last[1].name = "B"
    /\ last[1].fault = "none"
    /\ last[1].locals.raised = "no_model"
    /\ AvgAccContributors(models_data) = {"A"}

\* C9: when a required column is missing the batch fails as a whole before
\* any item is processed: no call of process_product is made and no result
\* mapping is returned.
C9_MissingColumnFailsBatch ==
    (~(Required \subseteq cols) /\ DOMAIN batch # {}) =>
        /\ last = None
        /\ pc # "done"

\* C16: the total anomaly log the run returns holds, exactly once, every
\* anomaly row detected for an item of the batch, also when the item's later
\* stages failed or the item had no usable prediction.
C16_TotalLogHoldsEveryItemLog ==
    (pc = "done" /\ last # None /\ last[1].locals.anomaly_log # None) =>
        LET total == models_data["total_anomaly_log"]
            log == last[1].locals.anomaly_log[1]
        IN  \A j \in DOMAIN log :
                Cardinality({k \in DOMAIN total : total[k] = log[j]}) = 1

\* C17: whenever the Prophet and the XGBoost future forecasts are blended,
\* both cover the 7 days after the last date of the item's history: the
\* outer join has exactly 7 rows and no row has a zero-filled contribution.
C17_BlendInputsSameSevenDates ==
    (/\ last # None
     /\ last[1].data # EmptyDict
     /\ last[1].data.ensemble_forecast # None) =>
        LET joined == last[1].data.ensemble_forecast[1]
            n == batch[last[1].name].n
        IN  /\ Len(joined) = DAYS_TO_PREDICT
            /\ \A k \in DOMAIN joined :
                   /\ joined[k].from_prophet
                   /\ joined[k].from_xgb
                   /\ joined[k].date \in (n + 1)..(n + DAYS_TO_PREDICT)

\* C18: at every call of ensemble_predict by process_product the volatility
\* score passed in lies in [0, 1], also for an item whose coefficient of
\* variation exceeds 1.
C18_VolatilityPassedInUnitInterval ==
    (last # None /\ last[1].locals.volatility # None) =>
        LET v == last[1].locals.volatility[1]
        IN  RatLeq(RatInt(0), v) /\ RatLeq(v, RatInt(1))

\* C19: before combination every contributing model's held-out series is
\* cut to its trailing part of one common length, the length of the shortest
\* non-empty series, and so is the target vector; a model with an empty
\* series is in neither the predictions nor the performance mapping.
C19_MinLengthAlignment ==
    (last # None /\ last[1].locals.all_predictions # None) =>
        LET loc == last[1].locals
            n == batch[last[1].name].n
            raw == loc.all_test_preds[1]
            preds == loc.all_predictions[1]
            y == loc.y_true_test[1]
            nonempty == {m \in ModelKinds : raw[m].len > 0}
            shortest == MinOver({raw[m].len : m \in nonempty})
        IN  /\ nonempty # {}
            /\ DOMAIN preds = nonempty
            /\ DOMAIN loc.performance_for_ensemble[1] = nonempty
            /\ \A m \in nonempty :
                   /\ preds[m].len = shortest
                   /\ \A k \in 1..shortest :
                          DayAt(preds[m], k)
                             = DayAt(raw[m], raw[m].len - shortest + k)
            /\ y.len = shortest
            /\ \A k \in 1..shortest : DayAt(y, k) = n - shortest + k

\* A call whose series had different lengths, so that one was cut, and in
\* which a model without predictions was left out.
C19_Witness ==
    /\ last # None
    /\ last[1].fault = "none"
    /\ last[1].data # EmptyDict
    /\ DOMAIN last[1].locals.all_predictions[1] # ModelKinds
    /\ \E m \in DOMAIN last[1].locals.all_predictions[1] :
          last[1].locals.all_test_preds[1][m].len
             > last[1].locals.all_predictions[1][m].len

\* C20: after min-length alignment, position k of every contributing
\* model's held-out series and position k of the target vector are the same
\* day of the item's history, for the LSTM's flattened windows too.
C20_AlignedPositionsSameDay ==
    (last # None /\ last[1].locals.all_predictions # None) =>
        LET preds == last[1].locals.all_predictions[1]
            y == last[1].locals.y_true_test[1]
        IN  \A m \in DOMAIN preds :
                \A k \in 1..preds[m].len :
                    k <= y.len /\ DayAt(preds[m], k) = DayAt(y, k)

\* C21: each trainer that trains reports its held-out predictions for
\* exactly the trailing min(30, floor(20% of n)) days of the item's n-day
\* history, in chronological order.
C21_TrailingTwentyPercentHoldout ==
    (last # None /\ last[1].locals.all_test_preds # None) =>
        LET raw == last[1].locals.all_test_preds[1]
            n == batch[last[1].name].n
            h == HoldoutSize(n)
        IN  \A m \in ModelKinds :
                raw[m].len > 0 =>
                    /\ raw[m].len = h
                    /\ \A k \in 1..h : DayAt(raw[m], k) = n - h + k

\* C27: whenever both future forecasts exist, the blend uses the Prophet
\* and XGBoost weights of the item's ensemble weights, each divided by
\* their sum; the sum is never 0 and the two blend weights sum to 1.
C27_BlendWeightsSumToOne ==
    (last # None /\ last[1].locals.blend_weights # None) =>
        LET b == last[1].locals.blend_weights[1]
        IN  /\ b.total_w # RatInt(0)
            /\ b.normalized # None
            /\ RatAdd(b.normalized[1].prophet, b.normalized[1].xgboost)
                  = RatInt(1)

(***************************************************************************)
(* Properties of calculate_dynamic_weights (SpecWeights)                   *)
(***************************************************************************)
\* C3: for a non-empty performance mapping whose accuracies are all
\* positive and a volatility in [0, 1], the returned weights have one entry
\* per model, are all non-negative and sum to 1.
C3_WeightsNormalized ==
    (/\ w_pc = "done"
     /\ DOMAIN w_perf # {}
     /\ \A m \in DOMAIN w_perf : w_perf[m][1] > 0
     /\ RatLeq(RatInt(0), w_vol) /\ RatLeq(w_vol, RatInt(1)))
    => /\ DOMAIN w_ret = DOMAIN w_perf
       /\ \A m \in DOMAIN w_ret : RatLeq(RatInt(0), w_ret[m])
       /\ RatSum(w_ret) = RatInt(1)

\* A call with three positive accuracies, a known and an unknown model
\* name among them, at volatility 1, that returned unequal weights.
C3_Witness ==
    /\ w_pc = "done"
    /\ DOMAIN w_perf = {"prophet", "lstm", "A"}
    /\ \A m \in DOMAIN w_perf : w_perf[m][1] > 0
    /\ w_vol = RatInt(1)
    /\ w_ret["prophet"] # w_ret["lstm"]
    /\ RatSum(w_ret) = RatInt(1)

\* C5: when every accuracy is 0 each model gets exactly 1/len(models),
\* whatever the volatility.
C5_ZeroAccuracyEqualWeights ==
    (/\ w_pc = "done"
     /\ DOMAIN w_perf # {}
     /\ \A m \in DOMAIN w_perf : w_perf[m] = RatInt(0))
    => /\ DOMAIN w_ret = DOMAIN w_perf
       /\ \A m \in DOMAIN w_ret :
             w_ret[m] = Rat(1, Cardinality(DOMAIN w_perf))

\* A call with three zero accuracies at a volatility above 1 that returned
\* a third each.
C5_Witness ==
    /\ w_pc = "done"
    /\ Cardinality(DOMAIN w_perf) = 3
    /\ \A m \in DOMAIN w_perf : w_perf[m] = RatInt(0)
    /\ w_vol = Rat(15, 10)
    /\ \A m \in DOMAIN w_ret : w_ret[m] = Rat(1, 3)

C14_AdjustmentMonotonic ==
    (adj_pc = "done" /\ RatLess(adj_lo, adj_hi)) =>
        LET base_weights == BaseWeights(adj_perf)
        IN  /\ ("lstm" \in DOMAIN adj_perf
                   /\ RatLess(RatInt(0), base_weights["lstm"]))
                  => RatLess(adj_at_lo["lstm"], adj_at_hi["lstm"])
            /\ ("prophet" \in DOMAIN adj_perf
                   /\ RatLess(RatInt(0), base_weights["prophet"]))
                  => RatLess(adj_at_hi["prophet"], adj_at_lo["prophet"])

\* Both models with positive base weights adjusted at 0.5 and at 1.
C14_Witness ==
    /\ adj_pc = "done"
    /\ DOMAIN adj_perf = {"lstm", "prophet"}
    /\ \A m \in DOMAIN adj_perf : RatLess(RatInt(0), BaseWeights(adj_perf)[m])
    /\ adj_lo = Rat(5, 10)
    /\ adj_hi = RatInt(1)
    /\ RatLess(adj_at_lo["lstm"], adj_at_hi["lstm"])
    /\ RatLess(adj_at_hi["prophet"], adj_at_lo["prophet"])

(***************************************************************************)
(* Properties of the factor synthesizer (SpecLeak)                         *)
(***************************************************************************)
\* C10: the derived columns of an item, the period-7 and period-14 cyclic
\* encodings of the row index among them, depend only on the item's own
\* rows: two batches holding the same rows of the item give it the same
\* derived columns, whatever other items' rows they hold and in what order.
C10_DerivedColumnsOwnRowsOnly ==
    l_pc = "done" => l_colsA = l_colsB

(***************************************************************************)
(* Properties of the anomaly detector (SpecAnomaly)                        *)
(***************************************************************************)
\* C11: for an item whose quantity has standard deviation 0 the detector
\* gives every row the deviation score exactly 0 and flags no row on the
\* z-score criterion: every flagged row is a row with missing quantity.
C11_ZeroStdNoZScoreFlag ==
    (an_pc = "done" /\ StdIsZero(PresentQty(an_df))) =>
        /\ \A k \in DOMAIN an_df : calculate_z_score(an_df)[k] = ZZero
        /\ \A k \in DOMAIN an_log :
              /\ an_log[k].qty = NaN
              /\ an_log[k].kind = "missing"
              /\ an_log[k].z_score = ZZero
        /\ \A k \in DOMAIN an_out : an_out[k].anomaly_score = ZZero

\* A processed frame of ten equal quantities and one missing quantity,
\* whose only log row is the missing one.
C11_Witness ==
    /\ an_pc = "done"
    /\ Len(an_df) = 11
    /\ StdIsZero(PresentQty(an_df))
    /\ Len(an_log) = 1
    /\ an_log[1].kind = "missing"

\* C12: every log row of kind "missing" has the fixed stock-out-or-gap
\* cause, whatever the promotion flag, event, weather and temperature of
\* the row.
C12_MissingAlwaysStockout ==
    an_pc = "done" =>
        \A k \in DOMAIN an_log :
            an_log[k].kind = "missing" => an_log[k].reason = "stockout_or_gap"

\* A logged missing row that carries a promotion, a holiday discount event,
\* sunny weather and 30 degrees.
C12_Witness ==
    /\ an_pc = "done"
    /\ LET row == an_df[Len(an_df)]
       IN  /\ row.qty = NaN
           /\ row.promotion = "1"
           /\ row.event = "holiday_discount"
           /\ row.weather = "sunny"
           /\ row.temp = Some(30)
           /\ \E k \in DOMAIN an_log :
                 /\ an_log[k].date = row.date
                 /\ an_log[k].reason = "stockout_or_gap"

\* C13: the augmented series has exactly the rows of the original series;
\* a row whose date is in the log has is_anomaly = True and the log's kind,
\* cause and score, every other row has is_anomaly = False, kind and cause
\* normal and score 0.0.
C13_JoinBackCarriesLog ==
    an_pc = "done" =>
        /\ Len(an_out) = Len(an_df)
        /\ \A k \in DOMAIN an_out :
              /\ an_out[k].date = an_df[k].date
              /\ an_out[k].qty = an_df[k].qty
              /\ \A j \in DOMAIN an_log :
                    an_log[j].date = an_df[k].date =>
                        /\ an_out[k].is_anomaly
                        /\ an_out[k].anomaly_type = an_log[j].kind
                        /\ an_out[k].anomaly_reason = an_log[j].reason
                        /\ an_out[k].anomaly_score = an_log[j].z_score
              /\ (\A j \in DOMAIN an_log : an_log[j].date # an_df[k].date) =>
                    /\ ~an_out[k].is_anomaly
                    /\ an_out[k].anomaly_type = "normal"
                    /\ an_out[k].anomaly_reason = "normal"
                    /\ an_out[k].anomaly_score = ZZero

\* C28: a row is in the item's anomaly log if and only if its quantity is
\* missing or |z| is strictly above the threshold, z computed once over the
\* whole frame; a logged row is missing if its quantity is missing, else a
\* spike if z is above the threshold, else a dip, and never normal.
C28_LoggedIffMissingOrOutlier ==
    an_pc = "done" =>
        LET z == calculate_z_score(an_df)
            logged == {an_log[j].date : j \in DOMAIN an_log}
        IN  /\ \A k \in DOMAIN an_df :
                   an_df[k].date \in logged
                      <=> (an_df[k].qty = NaN \/ AbsAboveThreshold(z[k]))
            /\ \A j \in DOMAIN an_log :
                   LET k == CHOOSE i \in DOMAIN an_df :
                                an_df[i].date = an_log[j].date
                   IN  /\ an_log[j].kind # "normal"
                       /\ an_log[j].kind =
                             IF an_df[k].qty = NaN THEN "missing"
                             ELSE IF z[k].sign > 0 THEN "spike"
                             ELSE "dip"

\* A frame with a logged missing row, a logged dip and rows left out.
C28_Witness ==
    /\ an_pc = "done"
    /\ \E j \in DOMAIN an_log : an_log[j].kind = "missing"
    /\ \E j \in DOMAIN an_log : an_log[j].kind = "dip"
    /\ Len(an_log) < Len(an_df)

\* C29: the cause of a flagged row is that of the first rule that holds, in
\* the order: missing; promotion flag or discount keyword, with a spike;
\* adverse weather with a dip; fair weather above 25 degrees with a spike;
\* event text present and not empty (special event for a holiday keyword
\* with a spike, else the event's effect); else unexplained outlier.  A row
\* whose event text is absent or empty and that matches none of the first
\* four rules is an unexplained outlier; a promoted dip is never a
\* promotion.
C29_CauseByFirstRule ==
    an_pc = "done" =>
        \A j \in DOMAIN an_log :
            LET row == an_df[CHOOSE i \in DOMAIN an_df :
                                 an_df[i].date = an_log[j].date]
                kind == an_log[j].kind
                hot == row.temp # None /\ row.temp[1] > HOT_TEMP
                no_event == row.event \in {"absent", "empty", "none_label"}
            IN  an_log[j].reason =
                  IF kind = "missing" THEN "stockout_or_gap"
                  ELSE IF /\ kind = "spike"
                          /\ \/ row.promotion = "1"
                             \/ row.event \in {"discount", "holiday_discount"}
                  THEN "promotion"
                  ELSE IF kind = "dip" /\ row.weather = "rain"
                  THEN "bad_weather"
                  ELSE IF kind = "spike" /\ row.weather = "sunny" /\ hot
                  THEN "hot_weather"
                  ELSE IF no_event THEN "statistical_outlier"
                  ELSE IF kind = "spike"
                          /\ row.event \in {"holiday", "holiday_discount"}
                  THEN "special_event"
                  ELSE "event_effect"

\* C30: the volatility analysis returns CV = population std / mean of the
\* quantity, 0 when the mean is 0, with the level very stable below 0.2,
\* stable below 0.5, volatile below 1.0 and very volatile from 1.0 on; a
\* constant positive series has CV 0, is very stable, and has an empty
\* anomaly log.  (Missing quantities are left out of std and mean here.)
C30_VolatilityIsStdOverMean ==
    an_vol # None =>
        LET xs == PresentQty(an_df)
            count == Len(xs)
            total == SumSeq(xs)
            cv_sq == IF count = 0 \/ total = 0 THEN RatInt(0)
                     ELSE Rat(ScaledSS(xs), count * total * total)
            constant == /\ count = Len(an_df)
                        /\ \A k \in DOMAIN xs : xs[k] = xs[1] /\ xs[k] > 0
        IN  /\ an_vol[1].cv_sq = cv_sq
            /\ an_vol[1].level =
                  IF RatLess(cv_sq, Rat(4, 100)) THEN "very_stable"
                  ELSE IF RatLess(cv_sq, Rat(25, 100)) THEN "stable"
                  ELSE IF RatLess(cv_sq, RatInt(1)) THEN "volatile"
                  ELSE "very_volatile"
            /\ constant =>
                  /\ an_vol[1].cv_sq = RatInt(0)
                  /\ an_vol[1].level = "very_stable"
                  /\ an_pc = "done" => an_log = << >>

(***************************************************************************)
(* Properties of the trainers (SpecTrain)                                  *)
(***************************************************************************)
\* C22: the held-out rows on which a trainer reports accuracy and MAE take
\* no part in fitting it: they are not passed to the hyperparameter search,
\* to the final fit, or to the validation set early stopping watches.
C22_HoldoutTakesNoPartInFitting ==
    (t_pc = "done" /\ t_res.trained) =>
        LET rows == t_res.rows[1]
        IN  rows.holdout \cap
               (rows.optimizer \cup rows.fit \cup rows.early_stop) = {}

\* C23: every value a trainer hands on, in its held-out prediction array
\* and in its future forecast, is >= 0.
C23_HandedPredictionsNonNegative ==
    (t_pc = "done" /\ t_res.trained) =>
        /\ \A k \in DOMAIN t_res.predictions :
               RatLeq(RatInt(0), t_res.predictions[k])
        /\ \A k \in DOMAIN t_res.forecast :
               RatLeq(RatInt(0), t_res.forecast[k])

(***************************************************************************)
(* Properties of predict_xgboost_future (SpecFuture)                       *)
(***************************************************************************)
\* C24: with a trained model the function runs exactly 7 one-step
\* iterations; after step k the history buffer holds the original rows and
\* exactly k appended rows whose quantities are the k predictions in order
\* (the placeholder row is not kept), step k+1's lag feature is the
\* prediction of step k, the 7 returned rows are dated last_date+1 ..
\* last_date+7 in order, and a step that raises gives an empty frame.
C24_FutureRecursion ==
    /\ (f_pc \in {"loop", "returned", "caught"} /\ f_model # None) =>
          LET n == Len(f_df)
          IN  /\ f_i <= DAYS_TO_PREDICT
              /\ Len(f_hist) = n + f_i
              /\ Len(f_preds) = f_i
              /\ \A k \in 1..n : f_hist[k] = f_df[k]
              /\ \A k \in 1..f_i :
                     /\ f_hist[n + k].qty = f_preds[k].qty
                     /\ f_hist[n + k].date = LastDate(f_df) + k
                     /\ f_preds[k].date = LastDate(f_df) + k
              /\ (f_i >= 2 /\ "lag_1" \in FeatureNames(f_engineered[1])) =>
                     FeatureValue(f_engineered[1], "lag_1")
                        = f_preds[f_i - 1].qty
    /\ (f_pc = "returned" /\ f_model # None) =>
          /\ f_i = DAYS_TO_PREDICT
          /\ f_ret = f_preds
    /\ f_pc = "caught" => f_ret = << >>

\* A complete forecast in which a prediction was clamped and another one
\* was positive.
C24_Witness ==
    /\ f_pc = "returned"
    /\ Len(f_ret) = DAYS_TO_PREDICT
    /\ f_ret[1].qty = 0
    /\ f_ret[DAYS_TO_PREDICT - 1].qty > 0
    /\ f_hist[Len(f_hist)].qty = 0

\* C25: at every step the feature vector fed to the model has exactly the
\* training-time feature names in the training-time order; an expected
\* feature that was engineered keeps its engineered value, an expected
\* feature that was not engineered is 0, and engineered features that are
\* not expected are dropped.
C25_FedFeaturesAligned ==
    f_fed # None =>
        LET names == ExpectedFeatures(f_model[1])
            fed == f_fed[1]
            engineered == f_engineered[1]
        IN  /\ Len(fed) = Len(names)
            /\ \A k \in DOMAIN names :
                   /\ fed[k][1] = names[k]
                   /\ fed[k][2] =
                         IF names[k] \in FeatureNames(engineered)
                         THEN FeatureValue(engineered, names[k])
                         ELSE 0

\* A step whose expected features hold one that was not engineered, leave
\* out engineered ones, and come in another order than the engineered.
C25_Witness ==
    /\ f_fed # None
    /\ f_i >= 2
    /\ f_expected[1] = <<"month", "lag_1", "promo_1">>
    /\ f_extras = <<"month">>
    /\ FeatureValue(f_fed[1], "lag_1") > 0
    /\ FeatureValue(f_fed[1], "promo_1") = 0

\* C26: in every step the synthetic future row from which the features are
\* derived is non-anomalous, whatever the last historical row is.
C26_SyntheticRowNonAnomalous ==
    f_temp_last # None =>
        /\ f_temp_last[1].anomaly # None
        /\ f_temp_last[1].anomaly[1] = NormalAnomaly
====
